---- MODULE Spec2Model ----
(***************************************************************************)
(* Model of rats/parallel.py: a seven-node graph (trim, search,            *)
(* confirm_docs, pruning, gen_backstory, confirm_backstory, answer) run in  *)
(* supersteps by a graph engine with human-in-the-loop interrupts, and the  *)
(* terminal driver loop `run` that feeds it questions and resume commands.  *)
(* The node bodies, the graph wiring and the driver are translated from     *)
(* the Python source; the engine they run on (superstep loop, state store,  *)
(* checkpointer, interrupt controller) is an imported library and is        *)
(* modelled from its written contract.                                      *)
(***************************************************************************)
EXTENDS Integers, Sequences, FiniteSets, TLC

VARIABLES
    dpc,                \* driver position: "loop" | "stream" | "quit" | "raised"
    interrupts,         \* driver: the interrupts collected from the last stream
    dstate,             \* driver: the `state` dict it sends as a question
    turn_input,         \* driver: input of the current stream call
    asked,              \* number of questions asked so far
    State,              \* engine: the State Store of the thread (live object)
    completedSet,       \* engine: nodes completed in the current run
    frontier,           \* engine: nodes eligible for the coming superstep
    pendingInterrupts,  \* engine: interrupts waiting for a resume value
    checkpoints,        \* checkpointer: history of the thread, in put order
    epc,                \* engine: "idle" | "load" | "run" | "committed" | "suspended"
                        \*         | "aborted" | "mismatch"
    task,               \* current superstep: node of the ready set -> status
    pre,                \* current superstep: node -> State it was invoked with
    collected,          \* current superstep: node -> delta it returned
    resumeVal,          \* current superstep: node -> value resolving its interrupt
    outputs,            \* StepOutputs of the last superstep, until consumed
    base,               \* history: what the current superstep started from
    answers,            \* history: interrupt_id -> what the user typed for it
    invoked,            \* history: node -> number of invocations in this run
    web,                \* history: the documents the web search returned
    removed,            \* history: documents pruned away in this run
    commits             \* history: node -> the checkpoints of its commits in this run

vars == <<dpc, interrupts, dstate, turn_input, asked, State, completedSet,
          frontier, pendingInterrupts, checkpoints, epc, task, pre, collected,
          resumeVal, outputs, base, answers, invoked, web, removed, commits>>

-----------------------------------------------------------------------------
(* Bounds of the model and constants of the program *)

MaxQuestions == 2

max_results == 3

PruneThreshold == 2

\* What the user may type as the r-th question: it differs from every earlier
\* question, with or without surrounding blanks.
Topic(r) == CASE r = 1 -> "a" [] r = 2 -> "b" [] r = 3 -> "c" [] OTHER -> "d"

Questions(r) == { <<Topic(r)>>, <<" ", Topic(r), " ">> }

\* How many results the web search may return.
ResultCounts == { 0, max_results }

QuitWords == { <<"q">>, <<"Q">> }

Responses == { <<"Y">>, <<"y", "e", "s">>, <<"n", "o">> }

-----------------------------------------------------------------------------
(* Strings are sequences of characters *)

LowerChar(c) ==
    CASE c = "Y" -> "y"
      [] c = "E" -> "e"
      [] c = "S" -> "s"
      [] c = "N" -> "n"
      [] c = "O" -> "o"
      [] c = "Q" -> "q"
      [] c = "A" -> "a"
      [] c = "B" -> "b"
      [] OTHER -> c

lower(s) == [i \in 1..Len(s) |-> LowerChar(s[i])]

RECURSIVE lstrip(_)
lstrip(s) == IF s # <<>> /\ Head(s) = " " THEN lstrip(Tail(s)) ELSE s

RECURSIVE rstrip(_)
rstrip(s) ==
    IF s # <<>> /\ s[Len(s)] = " " THEN rstrip(SubSeq(s, 1, Len(s) - 1)) ELSE s

strip(s) == rstrip(lstrip(s))

-----------------------------------------------------------------------------
(* Dictionaries are functions with a finite domain of keys *)

EmptyDict == [k \in {} |-> TRUE]

Get(d, k, default) == IF k \in DOMAIN d THEN d[k] ELSE default

Update(d, delta) ==
    [k \in DOMAIN d \cup DOMAIN delta |-> IF k \in DOMAIN delta THEN delta[k] ELSE d[k]]

Range(s) == { s[i] : i \in DOMAIN s }

-----------------------------------------------------------------------------
(* make_graph *)

START == "__start__"

END == "__end__"

Nodes == { "trim", "search", "confirm_docs", "pruning",
           "gen_backstory", "confirm_backstory", "answer" }

DeferredNone == {}

Deferred == { "answer" }

\* A wiring slip: search hangs off gen_backstory instead of trim.
EdgesSearchLate == { <<START, "trim">>,
                     <<"gen_backstory", "search">>,
                     <<"trim", "gen_backstory">>,
                     <<"search", "confirm_docs">>,
                     <<"confirm_docs", "pruning">>,
                     <<"pruning", "answer">>,
                     <<"gen_backstory", "confirm_backstory">>,
                     <<"confirm_backstory", "answer">>,
                     <<"answer", END>> }

\* A wiring slip: pruning hangs off search, beside confirm_docs.
EdgesPruningUnconfirmed == { <<START, "trim">>,
                             <<"trim", "search">>,
                             <<"trim", "gen_backstory">>,
                             <<"search", "confirm_docs">>,
                             <<"search", "pruning">>,
                             <<"pruning", "answer">>,
                             <<"gen_backstory", "confirm_backstory">>,
                             <<"confirm_backstory", "answer">>,
                             <<"answer", END>> }

\* A wiring slip: pruning hangs off trim instead of confirm_docs.
EdgesPruningEarly == { <<START, "trim">>,
                       <<"trim", "search">>,
                       <<"trim", "gen_backstory">>,
                       <<"search", "confirm_docs">>,
                       <<"trim", "pruning">>,
                       <<"pruning", "answer">>,
                       <<"gen_backstory", "confirm_backstory">>,
                       <<"confirm_backstory", "answer">>,
                       <<"answer", END>> }

Edges == { <<START, "trim">>,
           <<"trim", "search">>,
           <<"trim", "gen_backstory">>,
           <<"search", "confirm_docs">>,
           <<"confirm_docs", "pruning">>,
           <<"pruning", "answer">>,
           <<"gen_backstory", "confirm_backstory">>,
           <<"confirm_backstory", "answer">>,
           <<"answer", END>> }

InputStateKeys == { "question" }

InEdgeSources(n) == { e[1] : e \in { x \in Edges : x[2] = n } } \ { START }

Successors(S) == { e[2] : e \in { x \in Edges : x[1] \in S } } \cap Nodes

-----------------------------------------------------------------------------
(* Node bodies.  Each returns the delta (a dict) of the Python function. *)

trim(state) == [question |-> strip(state.question)]

\* What the web search tool returns for the r-th question: k documents.
Document(r, i) == <<r, i>>

web_search_tool(r, k) == [i \in 1..k |-> Document(r, i)]

\* A slip: `documents = []` instead of state.get("documents", []).
search_from_empty(state, live, web_docs) == [documents |-> web_docs]

\* Line 53: `documents` names the list held by the State the node was invoked
\* with when the key is present (`live` is that State now), and a fresh empty
\* list otherwise.  Lines 57-61 append every result to it and return it.
search(state, live, web_docs) ==
    [documents |-> (IF "documents" \in DOMAIN state THEN live.documents ELSE <<>>)
                   \o web_docs]

\* Lines 57-59 append in place: a list held by the State grows inside it.
search_in_place(state, live, web_docs) ==
    IF "documents" \in DOMAIN state
    THEN [live EXCEPT !.documents = @ \o web_docs]
    ELSE live

\* A slip: the response is compared as typed, without lower().
ApprovedAsTyped(response) ==
    ~(response # <<"y">> /\ response # <<"y", "e", "s">>)

Approved(response) ==
    ~(lower(response) # <<"y">> /\ lower(response) # <<"y", "e", "s">>)

confirm_docs(human_response) == [docs_approval |-> Approved(human_response)]

confirm_backstory(human_response) == [backstory_approval |-> Approved(human_response)]

\* A slip: documents[1:] instead of documents[:-1].
pruning_drops_first(state) ==
    LET documents == Get(state, "documents", <<>>)
        approval  == Get(state, "docs_approval", TRUE)
    IN  IF Len(documents) > PruneThreshold /\ ~approval
        THEN [documents |-> SubSeq(documents, 2, Len(documents))]
        ELSE [documents |-> documents]

pruning(state) ==
    LET documents == Get(state, "documents", <<>>)
        approval  == Get(state, "docs_approval", TRUE)
    IN  IF Len(documents) > PruneThreshold /\ ~approval
        THEN [documents |-> SubSeq(documents, 1, Len(documents) - 1)]
        ELSE [documents |-> documents]

\* A slip: the persona prompt is given the documents as context, as the
\* prompts of answer are.
gen_backstory_with_context(state) ==
    [backstory |-> [persona_for |-> state.question,
                    context |-> Get(state, "documents", <<>>)]]

\* The model (temperature 0) is a function of the prompt it is given.
gen_backstory(state) == [backstory |-> [persona_for |-> state.question]]

\* A slip: the generation is added to the messages of the State.
answer_appending(state) ==
    LET question  == state.question
        documents == Get(state, "documents", <<>>)
        backstory_approval == Get(state, "backstory_approval", FALSE)
        generation ==
            IF backstory_approval
            THEN [question |-> question, backstory |-> state.backstory,
                  context |-> documents]
            ELSE [question |-> question, context |-> documents]
    IN  [messages |-> Get(state, "messages", <<>>) \o <<generation>>]

answer(state) ==
    LET question  == state.question
        documents == Get(state, "documents", <<>>)
        backstory_approval == Get(state, "backstory_approval", FALSE)
        generation ==
            IF backstory_approval
            THEN [question |-> question, backstory |-> state.backstory,
                  context |-> documents]
            ELSE [question |-> question, context |-> documents]
    IN  [messages |-> <<generation>>]

\* Nodes whose body awaits an external call (and can fail there), and nodes
\* that call interrupt(); trim and pruning run without giving up control.
Awaiting == { "search", "gen_backstory", "answer" }

Confirming == { "confirm_docs", "confirm_backstory" }

Query(n) ==
    IF n = "confirm_docs"
    THEN "Please confirm that the documents look relevant. (Y/n)"
    ELSE "Do you find this persona interesting? (Y/n)"

InterruptId(n) == <<"interrupt", n>>

Interrupt(n) == [interrupt_id |-> InterruptId(n), value |-> [query |-> Query(n)]]

-----------------------------------------------------------------------------
(* The engine's contract: scheduling, state store, checkpointer *)

IsReady(n, completed) == n \notin Deferred \/ InEdgeSources(n) \subseteq completed

ReadySet(fr, completed) == { n \in fr : IsReady(n, completed) }

Blocked(fr, completed) == fr \ ReadySet(fr, completed)

NextFrontier(fr, rdy) == Successors(rdy) \cup (fr \ rdy)

\* Deltas are applied in node-name order; no channel of GraphState has a reducer.
NodeOrder == <<"answer", "confirm_backstory", "confirm_docs", "gen_backstory",
               "pruning", "search", "trim">>

RECURSIVE ApplyFrom(_, _, _)
ApplyFrom(state, deltas, i) ==
    IF i > Len(NodeOrder) THEN state
    ELSE ApplyFrom(IF NodeOrder[i] \in DOMAIN deltas
                   THEN Update(state, deltas[NodeOrder[i]]) ELSE state,
                   deltas, i + 1)

Apply(state, deltas) == ApplyFrom(state, deltas, 1)

Checkpoint(state, completed, fr, pending) ==
    [step_index |-> Len(checkpoints) + 1, state |-> state,
     completedNodes |-> completed, frontier |-> fr, pendingInterrupts |-> pending]

\* A slip of a keyed store: a checkpoint whose State, completed nodes and
\* frontier are those of the latest one replaces it instead of being added.
put_replacing(history, checkpoint) ==
    IF /\ history # <<>>
       /\ history[Len(history)].state = checkpoint.state
       /\ history[Len(history)].completedNodes = checkpoint.completedNodes
       /\ history[Len(history)].frontier = checkpoint.frontier
    THEN [history EXCEPT ![Len(history)] =
             [checkpoint EXCEPT !.step_index = history[Len(history)].step_index]]
    ELSE Append(history, checkpoint)

put(history, checkpoint) == Append(history, checkpoint)

\* The record of the thread with the greatest step_index.
getLatest ==
    CHOOSE c \in Range(checkpoints) :
        \A d \in Range(checkpoints) : d.step_index <= c.step_index

\* What an aborted superstep leaves in the history: nothing is put.
put_on_abort_progress(history) ==
    put(history, Checkpoint(Apply(State, collected),
                            completedSet \cup { n \in DOMAIN task : task[n] = "done" },
                            frontier, {}))

put_on_abort(history) == history

PlanStep(fr, completed) == [n \in ReadySet(fr, completed) |-> "ready"]

\* History: what a superstep started from.
Base(state, completed, fr) ==
    [state |-> state, completedSet |-> completed, frontier |-> fr,
     ncp |-> Len(checkpoints)]

-----------------------------------------------------------------------------
(* Initial state: run() has built its config and `state`, nothing has run *)

Init ==
    /\ dpc = "loop"
    /\ interrupts = <<>>
    /\ dstate = [messages |-> <<>>]
    /\ turn_input = [kind |-> "none"]
    /\ asked = 0
    /\ State = EmptyDict
    /\ completedSet = {}
    /\ frontier = {}
    /\ pendingInterrupts = {}
    /\ checkpoints = <<>>
    /\ epc = "idle"
    /\ task = EmptyDict
    /\ pre = EmptyDict
    /\ collected = EmptyDict
    /\ resumeVal = EmptyDict
    /\ outputs = <<>>
    /\ base = [state |-> EmptyDict, completedSet |-> {}, frontier |-> {}, ncp |-> 0]
    /\ answers = EmptyDict
    /\ invoked = [n \in Nodes |-> 0]
    /\ web = <<>>
    /\ removed = {}
    /\ commits = [n \in Nodes |-> <<>>]

-----------------------------------------------------------------------------
(* The driver loop of run(), lines 192-222 *)

\* A slip: every entry gets what the user typed last.
ResumableLastTyped(ints, users) ==
    [id \in { ints[i].interrupt_id : i \in DOMAIN ints } |-> users[Len(users)]]

\* A slip: `interrupts = []` (line 208) placed before the loop of lines
\* 202-206, which then has nothing to go over.
ResumableEmpty(ints, users) == EmptyDict

\* Lines 201-206: one entry per collected interrupt, keyed by its interrupt_id.
Resumable(ints, users) ==
    [id \in { ints[i].interrupt_id : i \in DOMAIN ints } |->
        users[CHOOSE i \in DOMAIN ints :
                /\ ints[i].interrupt_id = id
                /\ \A j \in DOMAIN ints : ints[j].interrupt_id = id => j <= i]]

\* A slip: the question is sent again instead of the resume command.
CommandAsQuestion(resumable) == [kind |-> "state", state |-> dstate]

\* Line 207: the input of the stream call after interrupts were collected.
Command(resumable) == [kind |-> "resume", resume |-> resumable]

\* Lines 193-199: no interrupt is pending; the user types a question.
DriverAsk(user) ==
    /\ dpc = "loop"
    /\ Len(interrupts) = 0
    /\ asked < MaxQuestions
    /\ user \notin QuitWords
    /\ dstate' = Update(dstate, [question |-> user])
    /\ turn_input' = [kind |-> "state", state |-> dstate']
    /\ dpc' = "stream"
    /\ epc' = "load"
    /\ asked' = asked + 1
    /\ outputs' = <<>>
    /\ answers' = EmptyDict
    /\ invoked' = [n \in Nodes |-> 0]
    /\ web' = <<>>
    /\ removed' = {}
    /\ commits' = [n \in Nodes |-> <<>>]
    /\ UNCHANGED <<interrupts, State, completedSet, frontier, pendingInterrupts,
                   checkpoints, task, pre, collected, resumeVal, base>>

\* Lines 195-197: the user types q or Q.
DriverQuit(user) ==
    /\ dpc = "loop"
    /\ Len(interrupts) = 0
    /\ user \in QuitWords
    /\ dpc' = "quit"
    /\ UNCHANGED <<interrupts, dstate, turn_input, asked, State, completedSet,
                   frontier, pendingInterrupts, checkpoints, epc, task, pre,
                   collected, resumeVal, outputs, base, answers, invoked, web,
                   removed, commits>>

\* Lines 200-208: interrupts were collected; the user answers each of them.
DriverResume(users) ==
    /\ dpc = "loop"
    /\ Len(interrupts) # 0
    /\ turn_input' = Command(Resumable(interrupts, users))
    /\ interrupts' = <<>>
    /\ dpc' = "stream"
    /\ epc' = "load"
    /\ outputs' = <<>>
    /\ answers' = Update(answers,
                         [id \in { interrupts[i].interrupt_id : i \in DOMAIN interrupts } |->
                            users[CHOOSE i \in DOMAIN interrupts :
                                    interrupts[i].interrupt_id = id]])
    /\ UNCHANGED <<dstate, asked, State, completedSet, frontier, pendingInterrupts,
                   checkpoints, task, pre, collected, resumeVal, base, invoked,
                   web, removed, commits>>

-----------------------------------------------------------------------------
(* The engine: start of a stream call *)

\* The graph's input schema is InputState: only its keys are written.
InputFilter(input) == [k \in DOMAIN input \cap InputStateKeys |-> input[k]]

\* A question starts a run at the entry node, on the State of the latest
\* checkpoint of the thread (or on the input alone when there is none).
LoadQuestion ==
    /\ epc = "load"
    /\ turn_input.kind = "state"
    /\ State' = Update(IF checkpoints = <<>> THEN EmptyDict ELSE getLatest.state,
                       InputFilter(turn_input.state))
    /\ completedSet' = {}
    /\ frontier' = Successors({START})
    /\ pendingInterrupts' = {}
    /\ task' = PlanStep(frontier', completedSet')
    /\ pre' = EmptyDict
    /\ collected' = EmptyDict
    /\ resumeVal' = EmptyDict
    /\ base' = Base(State', completedSet', frontier')
    /\ epc' = "run"
    /\ UNCHANGED <<dpc, interrupts, dstate, turn_input, asked, checkpoints,
                   outputs, answers, invoked, web, removed, commits>>

\* A ResumeCommand continues the suspended superstep from the latest
\* checkpoint: only the suspended nodes it names are invoked again.
Matched(cmd) ==
    { n \in DOMAIN task : task[n] = "suspended" /\ InterruptId(n) \in DOMAIN cmd }

LoadResume ==
    /\ epc = "load"
    /\ turn_input.kind = "resume"
    /\ Matched(turn_input.resume) # {}
    /\ State' = getLatest.state
    /\ completedSet' = getLatest.completedNodes
    /\ frontier' = getLatest.frontier
    /\ pendingInterrupts' = { i \in getLatest.pendingInterrupts :
                                i.interrupt_id \notin DOMAIN turn_input.resume }
    /\ task' = [n \in DOMAIN task |->
                  IF n \in Matched(turn_input.resume) THEN "ready" ELSE task[n]]
    /\ resumeVal' = [n \in Matched(turn_input.resume) |->
                       turn_input.resume[InterruptId(n)]]
    /\ epc' = "run"
    /\ UNCHANGED <<dpc, interrupts, dstate, turn_input, asked, checkpoints, pre,
                   collected, outputs, base, answers, invoked, web, removed,
                   commits>>

\* A slip: identifiers that match nothing are ignored and every suspended
\* node is invoked again.
LoadMismatchReinvokes ==
    /\ epc = "load"
    /\ turn_input.kind = "resume"
    /\ Matched(turn_input.resume) = {}
    /\ task' = [n \in DOMAIN task |->
                  IF task[n] = "suspended" THEN "ready" ELSE task[n]]
    /\ epc' = "run"
    /\ UNCHANGED <<dpc, interrupts, dstate, turn_input, asked, State, completedSet,
                   frontier, pendingInterrupts, checkpoints, pre, collected,
                   resumeVal, outputs, base, answers, invoked, web, removed,
                   commits>>

\* A ResumeCommand none of whose identifiers is that of a suspended node:
\* ResumeMismatchError reaches the caller (run prints and re-raises it, lines
\* 220-222) and the thread is left as it was.
LoadMismatch ==
    /\ epc = "load"
    /\ turn_input.kind = "resume"
    /\ Matched(turn_input.resume) = {}
    /\ epc' = "mismatch"
    /\ dpc' = "raised"
    /\ UNCHANGED <<interrupts, dstate, turn_input, asked, State, completedSet,
                   frontier, pendingInterrupts, checkpoints, task, pre, collected,
                   resumeVal, outputs, base, answers, invoked, web, removed,
                   commits>>

-----------------------------------------------------------------------------
(* The engine: node invocations of a superstep, in any order *)

Set(d, k, v) == Update(d, [x \in {k} |-> v])

Invoke(n) ==
    /\ pre' = Set(pre, n, State)
    /\ invoked' = [invoked EXCEPT ![n] = @ + 1]

Return(n, delta) ==
    /\ collected' = Set(collected, n, delta)
    /\ task' = [task EXCEPT ![n] = "done"]

\* trim and pruning run from invocation to return without giving up control.
RunTrim ==
    /\ epc = "run"
    /\ "trim" \in DOMAIN task /\ task["trim"] = "ready"
    /\ Invoke("trim")
    /\ Return("trim", trim(State))
    /\ UNCHANGED <<dpc, interrupts, dstate, turn_input, asked, State, completedSet,
                   frontier, pendingInterrupts, checkpoints, epc, resumeVal,
                   outputs, base, answers, web, removed, commits>>

RunPruning ==
    /\ epc = "run"
    /\ "pruning" \in DOMAIN task /\ task["pruning"] = "ready"
    /\ Invoke("pruning")
    /\ Return("pruning", pruning(State))
    /\ UNCHANGED <<dpc, interrupts, dstate, turn_input, asked, State, completedSet,
                   frontier, pendingInterrupts, checkpoints, epc, resumeVal,
                   outputs, base, answers, web, removed, commits>>

\* search, gen_backstory and answer read the State, then await an external call.
AwaitStart(n) ==
    /\ epc = "run"
    /\ n \in Awaiting
    /\ n \in DOMAIN task /\ task[n] = "ready"
    /\ Invoke(n)
    /\ task' = [task EXCEPT ![n] = "running"]
    /\ UNCHANGED <<dpc, interrupts, dstate, turn_input, asked, State, completedSet,
                   frontier, pendingInterrupts, checkpoints, epc, collected,
                   resumeVal, outputs, base, answers, web, removed, commits>>

\* The external call raises: the node fails.
AwaitFail(n) ==
    /\ epc = "run"
    /\ n \in DOMAIN task /\ task[n] = "running"
    /\ task' = [task EXCEPT ![n] = "failed"]
    /\ UNCHANGED <<dpc, interrupts, dstate, turn_input, asked, State, completedSet,
                   frontier, pendingInterrupts, checkpoints, epc, pre, collected,
                   resumeVal, outputs, base, answers, invoked, web, removed,
                   commits>>

SearchReturn(k) ==
    /\ epc = "run"
    /\ "search" \in DOMAIN task /\ task["search"] = "running"
    /\ LET web_docs == web_search_tool(asked, k)
       IN  /\ Return("search", search(pre["search"], State, web_docs))
           /\ State' = search_in_place(pre["search"], State, web_docs)
           /\ web' = web_docs
    /\ UNCHANGED <<dpc, interrupts, dstate, turn_input, asked, completedSet,
                   frontier, pendingInterrupts, checkpoints, epc, pre, resumeVal,
                   outputs, base, answers, invoked, removed, commits>>

GenBackstoryReturn ==
    /\ epc = "run"
    /\ "gen_backstory" \in DOMAIN task /\ task["gen_backstory"] = "running"
    /\ Return("gen_backstory", gen_backstory(pre["gen_backstory"]))
    /\ UNCHANGED <<dpc, interrupts, dstate, turn_input, asked, State, completedSet,
                   frontier, pendingInterrupts, checkpoints, epc, pre, resumeVal,
                   outputs, base, answers, invoked, web, removed, commits>>

AnswerReturn ==
    /\ epc = "run"
    /\ "answer" \in DOMAIN task /\ task["answer"] = "running"
    /\ Return("answer", answer(pre["answer"]))
    /\ UNCHANGED <<dpc, interrupts, dstate, turn_input, asked, State, completedSet,
                   frontier, pendingInterrupts, checkpoints, epc, pre, resumeVal,
                   outputs, base, answers, invoked, web, removed, commits>>

\* confirm_docs and confirm_backstory call interrupt() first: without a resume
\* value the call suspends the node, with one it returns the value.
ConfirmSuspend(n) ==
    /\ epc = "run"
    /\ n \in Confirming
    /\ n \in DOMAIN task /\ task[n] = "ready"
    /\ n \notin DOMAIN resumeVal
    /\ Invoke(n)
    /\ task' = [task EXCEPT ![n] = "suspended"]
    /\ pendingInterrupts' = pendingInterrupts \cup { Interrupt(n) }
    /\ UNCHANGED <<dpc, interrupts, dstate, turn_input, asked, State, completedSet,
                   frontier, checkpoints, epc, collected, resumeVal, outputs,
                   base, answers, web, removed, commits>>

ConfirmDelta(n, human_response) ==
    IF n = "confirm_docs" THEN confirm_docs(human_response)
    ELSE confirm_backstory(human_response)

ConfirmReturn(n) ==
    /\ epc = "run"
    /\ n \in Confirming
    /\ n \in DOMAIN task /\ task[n] = "ready"
    /\ n \in DOMAIN resumeVal
    /\ Invoke(n)
    /\ Return(n, ConfirmDelta(n, resumeVal[n]))
    /\ UNCHANGED <<dpc, interrupts, dstate, turn_input, asked, State, completedSet,
                   frontier, pendingInterrupts, checkpoints, epc, resumeVal,
                   outputs, base, answers, web, removed, commits>>

-----------------------------------------------------------------------------
(* The engine: the barrier at the end of a superstep *)

Settled == \A n \in DOMAIN task : task[n] \in { "done", "suspended", "failed" }

Failed == { n \in DOMAIN task : task[n] = "failed" }

Suspended == { n \in DOMAIN task : task[n] = "suspended" }

\* A node failed: the superstep is aborted and the error reaches the driver,
\* which prints and re-raises it (lines 220-222).
Abort ==
    /\ epc = "run"
    /\ Settled
    /\ Failed # {}
    /\ checkpoints' = put_on_abort(checkpoints)
    /\ epc' = "aborted"
    /\ dpc' = "raised"
    /\ UNCHANGED <<interrupts, dstate, turn_input, asked, State, completedSet,
                   frontier, pendingInterrupts, task, pre, collected, resumeVal,
                   outputs, base, answers, invoked, web, removed, commits>>

\* The ways the pending interrupts can be surfaced as StepOutputs, in node
\* order: all in the list of one output, or one output for each.
InterruptList(P) ==
    LET ns == SelectSeq(NodeOrder, LAMBDA n : Interrupt(n) \in P)
    IN  [i \in 1..Len(ns) |-> Interrupt(ns[i])]

InterruptOutputs(P) ==
    { <<[key |-> "__interrupt__", value |-> InterruptList(P)]>>,
      [i \in 1..Cardinality(P) |->
         [key |-> "__interrupt__", value |-> <<InterruptList(P)[i]>>]] }

\* A slip: the outputs are printed and no interrupt is kept.
CollectNothing(ints, outs) == ints

\* Lines 216-219: of every output whose key is __interrupt__, value[0] is kept.
Collect(ints, outs) ==
    ints \o [i \in 1..Len(outs) |-> outs[i].value[1]]

\* Some node is suspended: nothing is applied, a checkpoint is persisted, the
\* interrupts are surfaced and the stream ends.
Suspend(outs) ==
    /\ epc = "run"
    /\ Settled
    /\ Failed = {}
    /\ Suspended # {}
    /\ outs \in InterruptOutputs(pendingInterrupts)
    /\ checkpoints' = put(checkpoints,
                          Checkpoint(State, completedSet, frontier, pendingInterrupts))
    /\ outputs' = outs
    /\ interrupts' = Collect(interrupts, outs)
    /\ epc' = "suspended"
    /\ dpc' = "loop"
    /\ UNCHANGED <<dstate, turn_input, asked, State, completedSet, frontier,
                   pendingInterrupts, task, pre, collected, resumeVal, base,
                   answers, invoked, web, removed, commits>>

NodeOutputs(deltas) ==
    LET ns == SelectSeq(NodeOrder, LAMBDA n : n \in DOMAIN deltas)
    IN  [i \in 1..Len(ns) |-> [key |-> ns[i], value |-> deltas[ns[i]]]]

\* Every node of the ready set returned: the deltas are applied, the nodes
\* are completed, the frontier advances and a checkpoint is persisted.
Commit ==
    /\ epc = "run"
    /\ Settled
    /\ Failed = {}
    /\ Suspended = {}
    /\ State' = Apply(State, collected)
    /\ completedSet' = completedSet \cup DOMAIN task
    /\ frontier' = NextFrontier(frontier, DOMAIN task)
    /\ checkpoints' = put(checkpoints,
                          Checkpoint(State', completedSet', frontier', {}))
    /\ outputs' = NodeOutputs(collected)
    /\ removed' = IF "pruning" \in DOMAIN task
                  THEN removed \cup (Range(Get(State, "documents", <<>>))
                                     \ Range(Get(State', "documents", <<>>)))
                  ELSE removed
    /\ commits' = [n \in Nodes |->
                     IF n \in DOMAIN collected
                     THEN Append(commits[n], Len(checkpoints'))
                     ELSE commits[n]]
    /\ epc' = "committed"
    /\ UNCHANGED <<dpc, interrupts, dstate, turn_input, asked, pendingInterrupts,
                   task, pre, collected, resumeVal, base, answers, invoked, web>>

\* The loop goes on with the next superstep (the driver's loop body has
\* consumed the outputs of the last one) ...
Advance ==
    /\ epc = "committed"
    /\ frontier # {}
    /\ task' = PlanStep(frontier, completedSet)
    /\ pre' = EmptyDict
    /\ collected' = EmptyDict
    /\ resumeVal' = EmptyDict
    /\ base' = Base(State, completedSet, frontier)
    /\ answers' = EmptyDict
    /\ outputs' = <<>>
    /\ epc' = "run"
    /\ UNCHANGED <<dpc, interrupts, dstate, turn_input, asked, State, completedSet,
                   frontier, pendingInterrupts, checkpoints, invoked, web, removed,
                   commits>>

\* ... or the terminal marker is reached and the stream ends.
Finish ==
    /\ epc = "committed"
    /\ frontier = {}
    /\ task' = EmptyDict
    /\ pre' = EmptyDict
    /\ collected' = EmptyDict
    /\ resumeVal' = EmptyDict
    /\ answers' = EmptyDict
    /\ epc' = "idle"
    /\ dpc' = "loop"
    /\ UNCHANGED <<interrupts, dstate, turn_input, asked, State, completedSet,
                   frontier, pendingInterrupts, checkpoints, outputs, base,
                   invoked, web, removed, commits>>

-----------------------------------------------------------------------------

Next ==
    \/ \E user \in Questions(asked + 1) : DriverAsk(user)
    \/ \E user \in QuitWords : DriverQuit(user)
    \/ \E users \in [1..Len(interrupts) -> Responses] : DriverResume(users)
    \/ LoadQuestion
    \/ LoadResume
    \/ RunTrim
    \/ RunPruning
    \/ \E n \in Awaiting : AwaitStart(n)
    \/ \E n \in Awaiting : AwaitFail(n)
    \/ \E k \in ResultCounts : SearchReturn(k)
    \/ GenBackstoryReturn
    \/ AnswerReturn
    \/ \E n \in Confirming : ConfirmSuspend(n)
    \/ \E n \in Confirming : ConfirmReturn(n)
    \/ Abort
    \/ \E outs \in InterruptOutputs(pendingInterrupts) : Suspend(outs)
    \/ Commit
    \/ Advance
    \/ Finish

Spec == Init /\ [][Next]_vars

\* Scheduling: the event loop runs every task that can take a step, the
\* engine awaits the nodes of a superstep jointly, and an external call that
\* does not raise returns; the user answers the interrupts put before them.
\* Nothing makes the user ask a further question, and no external call has to
\* raise.
EngineStep ==
    \/ LoadQuestion
    \/ LoadResume
    \/ RunTrim
    \/ RunPruning
    \/ \E n \in Awaiting : AwaitStart(n)
    \/ \E k \in ResultCounts : SearchReturn(k)
    \/ GenBackstoryReturn
    \/ AnswerReturn
    \/ \E n \in Confirming : ConfirmSuspend(n)
    \/ \E n \in Confirming : ConfirmReturn(n)
    \/ Abort
    \/ \E outs \in InterruptOutputs(pendingInterrupts) : Suspend(outs)
    \/ Commit
    \/ Advance
    \/ Finish

UserAnswers == \E users \in [1..Len(interrupts) -> Responses] : DriverResume(users)

LiveSpec == Spec /\ WF_vars(EngineStep) /\ WF_vars(UserAnswers)

\* The run interface is open to any caller of the thread: between two stream
\* calls one may send a ResumeCommand of its own making, whose identifiers
\* need not be those of the interrupts last surfaced.
InterruptIds == { InterruptId(n) : n \in Confirming }

CallerCommands ==
    { [id \in ids |-> <<"n", "o">>] : ids \in (SUBSET InterruptIds) \ { {} } }

CallerResume(resumable) ==
    /\ dpc = "loop"
    /\ turn_input' = Command(resumable)
    /\ interrupts' = <<>>
    /\ dpc' = "stream"
    /\ epc' = "load"
    /\ outputs' = <<>>
    /\ answers' = Update(answers,
                         [id \in DOMAIN resumable
                                   \cap { p.interrupt_id : p \in pendingInterrupts } |->
                            resumable[id]])
    /\ UNCHANGED <<dstate, asked, State, completedSet, frontier, pendingInterrupts,
                   checkpoints, task, pre, collected, resumeVal, base, invoked,
                   web, removed, commits>>

CallerNext ==
    \/ Next
    \/ \E resumable \in CallerCommands : CallerResume(resumable)
    \/ LoadMismatch

CallerSpec == Init /\ [][CallerNext]_vars

-----------------------------------------------------------------------------
(* Properties *)

committed == getLatest.state

RECURSIVE UpstreamFrom(_, _)
UpstreamFrom(S, i) ==
    IF i = 0 THEN S
    ELSE UpstreamFrom(S \cup UNION { InEdgeSources(m) : m \in S }, i - 1)

Upstream(n) == UpstreamFrom(InEdgeSources(n), Cardinality(Nodes))

\* C1 (barrier invariant): the deferred node `answer` is in the ready set, or
\* has been invoked, only when pruning and confirm_backstory and every node
\* upstream of them (trim, search, confirm_docs, gen_backstory) are completed.
C1_BarrierInvariant ==
    ("answer" \in DOMAIN task \/ invoked["answer"] > 0) =>
        /\ { "pruning", "confirm_backstory", "trim", "search", "confirm_docs",
             "gen_backstory" } \subseteq completedSet
        /\ Upstream("answer") \subseteq completedSet

\* answer is running in the second question, after both branches completed.
C1_Witness ==
    /\ epc = "run"
    /\ "answer" \in DOMAIN task
    /\ task["answer"] = "running"
    /\ asked = 2

\* C2 (suspension commits nothing): when a superstep ends suspended, State,
\* completedSet and frontier are what the superstep started from, also when a
\* sibling node returned a delta in it, and the checkpoint persisted at the
\* suspension has the State, completed nodes and frontier of the checkpoint
\* before the superstep.
C2_SuspensionCommitsNothing ==
    epc = "suspended" =>
        /\ State = base.state
        /\ completedSet = base.completedSet
        /\ frontier = base.frontier
        /\ Len(checkpoints) > base.ncp
        /\ base.ncp >= 1
        /\ \A i \in base.ncp..Len(checkpoints) :
              /\ checkpoints[i].state = base.state
              /\ checkpoints[i].completedNodes = base.completedSet
              /\ checkpoints[i].frontier = base.frontier
        /\ getLatest.pendingInterrupts = pendingInterrupts
        /\ pendingInterrupts # {}

\* A superstep is suspended on confirm_docs while its sibling
\* confirm_backstory has returned a delta, in the second question.
C2_Witness ==
    /\ epc = "suspended"
    /\ "confirm_backstory" \in DOMAIN collected
    /\ task["confirm_docs"] = "suspended"
    /\ "backstory_approval" \in DOMAIN State
    /\ collected["confirm_backstory"].backstory_approval # State.backstory_approval

DirectDeltas == [n \in DOMAIN task |-> ConfirmDelta(n, answers[InterruptId(n)])]

\* C3 (resume transparency): the superstep of the confirm nodes, suspended and
\* resumed with the values the user gave, commits the State, completedSet and
\* frontier that the nodes would commit if each ran to completion directly
\* with its value in place of the interrupt() call.
C3_ResumeTransparency ==
    (epc = "committed" /\ DOMAIN task \cap Confirming # {}) =>
        /\ DOMAIN task \subseteq Confirming
        /\ \A n \in DOMAIN task : InterruptId(n) \in DOMAIN answers
        /\ State = Apply(base.state, DirectDeltas)
        /\ committed = State
        /\ completedSet = base.completedSet \cup DOMAIN task
        /\ frontier = NextFrontier(base.frontier, DOMAIN task)
        /\ getLatest.completedNodes = completedSet
        /\ getLatest.frontier = frontier

\* Both confirm nodes were suspended, resumed with different answers, and
\* their superstep has committed.
C3_Witness ==
    /\ epc = "committed"
    /\ DOMAIN task = Confirming
    /\ invoked["confirm_docs"] >= 2
    /\ invoked["confirm_backstory"] >= 2
    /\ State.docs_approval # State.backstory_approval

\* C4 (no re-execution on resume): a node is invoked only while it is not in
\* completedSet, and a node already invoked in this run is invoked again only
\* when it is a confirm node, the stream was started with a ResumeCommand
\* that names its interrupt_id, and the frontier is the one at suspension.
C4_NoReexecution ==
    [][\A n \in Nodes :
          invoked'[n] > invoked[n] =>
             /\ n \notin completedSet
             /\ invoked[n] > 0 =>
                   /\ n \in Confirming
                   /\ turn_input.kind = "resume"
                   /\ InterruptId(n) \in DOMAIN turn_input.resume
                   /\ frontier = base.frontier
                   /\ frontier = getLatest.frontier]_vars

\* A ResumeCommand that names only confirm_backstory has invoked it a second
\* time; confirm_docs, trim, search and gen_backstory were invoked once.
C4_Witness ==
    /\ epc = "run"
    /\ turn_input.kind = "resume"
    /\ DOMAIN turn_input.resume = { InterruptId("confirm_backstory") }
    /\ invoked["confirm_backstory"] = 2
    /\ invoked["confirm_docs"] = 1
    /\ invoked["trim"] = 1 /\ invoked["search"] = 1 /\ invoked["gen_backstory"] = 1
    /\ "confirm_backstory" \in DOMAIN collected

\* The delta of node n computed from the State its superstep started from and
\* the inputs of the run (search results, resume values), in no interleaving.
SequentialDelta(n) ==
    CASE n = "trim" -> trim(base.state)
      [] n = "search" -> search(base.state, base.state, web)
      [] n = "gen_backstory" -> gen_backstory(base.state)
      [] n = "pruning" -> pruning(base.state)
      [] n = "answer" -> answer(base.state)
      [] OTHER -> ConfirmDelta(n, answers[InterruptId(n)])

\* C5 (interleaving independence): the State committed by a superstep is the
\* State it started from with the deltas its nodes compute from that State
\* and the inputs of the run, whatever the order in which they started and
\* finished.
C5_InterleavingIndependence ==
    epc = "committed" =>
        /\ State = Apply(base.state, [n \in DOMAIN task |-> SequentialDelta(n)])
        /\ committed = State
        /\ \A n \in DOMAIN task : collected[n] = SequentialDelta(n)

\* In the second question gen_backstory started after search had returned
\* its results, and their superstep has committed.
C5_Witness ==
    /\ epc = "committed"
    /\ DOMAIN task = { "search", "gen_backstory" }
    /\ web # <<>>
    /\ pre["gen_backstory"] # base.state

\* C6 (all interrupts surfaced and answered): after a stream that ended
\* suspended the driver holds one interrupt per pending interrupt_id, and the
\* ResumeCommand it sends next has one entry per pending interrupt_id.
C6_AllInterruptsAnswered ==
    /\ epc = "suspended" =>
          { interrupts[i].interrupt_id : i \in DOMAIN interrupts }
             = { p.interrupt_id : p \in pendingInterrupts }
    /\ (epc = "load" /\ turn_input.kind = "resume") =>
          DOMAIN turn_input.resume = { p.interrupt_id : p \in pendingInterrupts }

C8_AppendOnly ==
    [][/\ Len(checkpoints') >= Len(checkpoints)
       /\ SubSeq(checkpoints', 1, Len(checkpoints)) = checkpoints
       /\ \A i \in 1..Len(checkpoints') : \A j \in 1..Len(checkpoints') :
             i < j => checkpoints'[i].step_index < checkpoints'[j].step_index
       /\ (epc = "run" /\ epc' = "committed") =>
             Len(checkpoints') = Len(checkpoints) + 1
       /\ Len(checkpoints') > 0 => getLatest' = checkpoints'[Len(checkpoints')]]_vars

\* The history holds checkpoints of committed supersteps, of two suspensions
\* and of a second question.
C8_Witness ==
    /\ epc = "committed"
    /\ asked = 2
    /\ Len(checkpoints) >= 9
    /\ \E i \in 1..Len(checkpoints) : \E j \in 1..Len(checkpoints) :
          /\ i < j
          /\ checkpoints[i].pendingInterrupts # {}
          /\ checkpoints[j].pendingInterrupts # {}
          /\ checkpoints[i].pendingInterrupts # checkpoints[j].pendingInterrupts

\* C9 (pruning result): the superstep of pruning commits the previous
\* documents without their last element when docs_approval is false and
\* there are more than 2 of them (3 become 2), and the previous documents
\* otherwise; a document pruned away is in no later State of the run.
C9_PruningResult ==
    /\ (epc = "committed" /\ "pruning" \in DOMAIN task) =>
          LET before == Get(base.state, "documents", <<>>)
              approval == Get(base.state, "docs_approval", TRUE)
          IN  /\ "documents" \in DOMAIN State
              /\ committed.documents = State.documents
              /\ IF ~approval /\ Len(before) > 2
                 THEN /\ State.documents = SubSeq(before, 1, Len(before) - 1)
                      /\ Len(State.documents) = Len(before) - 1
                      /\ removed = { before[Len(before)] }
                 ELSE /\ State.documents = before
                      /\ removed = {}
    /\ removed \cap Range(Get(State, "documents", <<>>)) = {}
    /\ checkpoints # <<>> => removed \cap Range(Get(committed, "documents", <<>>)) = {}

\* Three documents were pruned to two, and answer has since committed.
C9_Witness ==
    /\ epc = "committed"
    /\ "answer" \in DOMAIN task
    /\ removed # {}
    /\ Len(State.documents) = 2

\* C10 (node bodies never mutate State): while a superstep runs, State is the
\* State the superstep started from, and every node that has returned,
\* suspended or failed left the State it was invoked with as it was.
C10_NodesNeverMutateState ==
    epc = "run" =>
        /\ State = base.state
        /\ \A n \in DOMAIN pre : State = pre[n]

\* C11 (resume mismatch leaves the run untouched): a stream call whose
\* ResumeCommand names no suspended node ends with the error at the caller,
\* invokes no node and leaves State, completedSet, frontier,
\* pendingInterrupts and the checkpoint history as they were.
C11_ResumeMismatch ==
    [][(epc = "load" /\ turn_input.kind = "resume"
           /\ Matched(turn_input.resume) = {}) =>
          /\ epc' = "mismatch"
          /\ dpc' = "raised"
          /\ invoked' = invoked
          /\ task' = task
          /\ State' = State
          /\ completedSet' = completedSet
          /\ frontier' = frontier
          /\ pendingInterrupts' = pendingInterrupts
          /\ checkpoints' = checkpoints]_vars

\* confirm_backstory was resumed and has returned, confirm_docs is still
\* suspended, and a command naming confirm_backstory again was refused.
C11_Witness ==
    /\ epc = "mismatch"
    /\ dpc = "raised"
    /\ Suspended = { "confirm_docs" }
    /\ "confirm_backstory" \in DOMAIN collected
    /\ DOMAIN turn_input.resume = { InterruptId("confirm_backstory") }
    /\ pendingInterrupts = { Interrupt("confirm_docs") }

\* The terminal marker is reached: answer is completed, the frontier is empty.
AtTerminal ==
    /\ epc = "idle"
    /\ dpc = "loop"
    /\ asked > 0
    /\ "answer" \in completedSet
    /\ frontier = {}

\* No stream call is under way and no interrupt waits for an answer: nothing
\* was asked yet, or the terminal marker is reached, or a node's error ended
\* the run, or the user has quit.
AtRest == asked = 0 \/ AtTerminal \/ epc = "aborted" \/ dpc = "quit"

\* C12 (every stream terminates): in a run no node is invoked more than once,
\* a confirm node more than twice; a stream call that has ended has ended at
\* a suspension with an interrupt for the driver to answer, or at the
\* terminal marker with answer completed and the frontier empty; a stream
\* call in which no node failed can take a step; and every stream call and
\* every suspension comes to an end: the run is again and again at rest, at
\* the terminal marker unless a node failed.
C12_EveryStreamTerminates ==
    /\ [](/\ \A n \in Nodes : invoked[n] <= (IF n \in Confirming THEN 2 ELSE 1)
          /\ dpc = "loop" => epc \in { "idle", "suspended" }
          /\ epc = "suspended" => Len(interrupts) >= 1
          /\ (dpc = "loop" /\ epc = "idle" /\ asked > 0) => AtTerminal
          /\ (dpc = "stream" /\ Failed = {}) => ENABLED EngineStep)
    /\ []<>AtRest

\* The second question reached the terminal marker after two suspensions,
\* the first answered for confirm_backstory alone.
C12_Witness ==
    /\ AtTerminal
    /\ asked = 2
    /\ invoked["confirm_docs"] = 2
    /\ invoked["confirm_backstory"] = 2
    /\ \E i \in 1..Len(checkpoints) :
          checkpoints[i].pendingInterrupts = { Interrupt("confirm_docs") }

\* The approval channel a confirm node writes.
ApprovalChannel(n) ==
    IF n = "confirm_docs" THEN "docs_approval" ELSE "backstory_approval"

\* Every spelling of y and of yes, in either case of each letter.
YesWords ==
    { <<c>> : c \in { "y", "Y" } }
      \cup { <<c1, c2, c3>> : c1 \in { "y", "Y" }, c2 \in { "e", "E" },
                              c3 \in { "s", "S" } }

\* C13 (confirmation delta): a resumed confirm node gets from its interrupt()
\* call the value the user typed for its interrupt_id, and the delta it
\* returns writes its own approval channel and nothing else: true when the
\* value is a spelling of y or yes, false otherwise (false for "no"); the
\* superstep that commits it changes no other channel of the State.
C13_ConfirmationDelta ==
    /\ \A n \in Confirming \cap DOMAIN resumeVal :
          resumeVal[n] = answers[InterruptId(n)]
    /\ \A n \in Confirming \cap DOMAIN collected :
          /\ InterruptId(n) \in DOMAIN answers
          /\ DOMAIN collected[n] = { ApprovalChannel(n) }
          /\ collected[n][ApprovalChannel(n)] = (answers[InterruptId(n)] \in YesWords)
          /\ answers[InterruptId(n)] = <<"n", "o">> =>
                collected[n][ApprovalChannel(n)] = FALSE
    /\ (epc = "committed" /\ DOMAIN task \cap Confirming # {}) =>
          /\ \A n \in DOMAIN task :
                State[ApprovalChannel(n)] = (answers[InterruptId(n)] \in YesWords)
          /\ \A k \in DOMAIN State \ { ApprovalChannel(n) : n \in DOMAIN task } :
                k \in DOMAIN base.state /\ State[k] = base.state[k]

\* confirm_docs was resumed with "no" and confirm_backstory with "Y", and
\* their superstep has committed false and true.
C13_Witness ==
    /\ epc = "committed"
    /\ DOMAIN task = Confirming
    /\ answers[InterruptId("confirm_docs")] = <<"n", "o">>
    /\ answers[InterruptId("confirm_backstory")] = <<"Y">>
    /\ State.docs_approval = FALSE
    /\ State.backstory_approval = TRUE

\* C14 (exactly-once commit per question): in a run no node commits a delta
\* twice; a node is completed exactly when it has committed; a node commits at
\* a checkpoint later than those at which its in-edge sources committed; and
\* at the terminal marker each of the seven nodes, answer among them, has
\* committed exactly once.
C14_ExactlyOnceCommit ==
    /\ \A n \in Nodes : Len(commits[n]) <= 1
    /\ epc # "load" =>
          \A n \in Nodes : (Len(commits[n]) = 1) <=> (n \in completedSet)
    /\ \A n \in Nodes : \A i \in DOMAIN commits[n] :
          \A m \in InEdgeSources(n) :
             /\ Len(commits[m]) = 1
             /\ commits[m][1] < commits[n][i]
    /\ AtTerminal =>
          /\ \A n \in Nodes : Len(commits[n]) = 1
          /\ Cardinality(Nodes) = 7
          /\ Len(commits["answer"]) = 1
          /\ commits["answer"][1] = Len(checkpoints)

\* The second question reached the terminal marker: answer committed at the
\* last checkpoint, after pruning and after confirm_backstory, which
\* committed two checkpoints before pruning (a suspension lies between).
C14_Witness ==
    /\ AtTerminal
    /\ asked = 2
    /\ commits["answer"] = << Len(checkpoints) >>
    /\ commits["pruning"] = << Len(checkpoints) - 1 >>
    /\ commits["confirm_backstory"] = << Len(checkpoints) - 2 >>
    /\ commits["confirm_docs"] = commits["confirm_backstory"]
    /\ checkpoints[Len(checkpoints) - 3].pendingInterrupts # {}

\* C15 (no write conflict): the nodes of a superstep's ready set are those of
\* one of the five ready sets of the graph, and no two of them have returned
\* deltas that write the same channel, also when the deltas were returned in
\* different stream calls of a superstep resumed interrupt by interrupt.
C15_NoWriteConflict ==
    /\ DOMAIN collected \subseteq DOMAIN task
    /\ \A n \in DOMAIN collected : \A m \in DOMAIN collected :
          n # m => DOMAIN collected[n] \cap DOMAIN collected[m] = {}
    /\ epc \in { "run", "committed", "suspended", "aborted" } =>
          DOMAIN task \in { { "trim" }, { "search", "gen_backstory" },
                            { "confirm_docs", "confirm_backstory" },
                            { "pruning" }, { "answer" } }

\* confirm_backstory returned in the stream call that answered it alone,
\* confirm_docs in the next one, and their superstep has committed.
C15_Witness ==
    /\ epc = "committed"
    /\ DOMAIN collected = Confirming
    /\ turn_input.kind = "resume"
    /\ DOMAIN turn_input.resume = { InterruptId("confirm_docs") }
    /\ invoked["confirm_backstory"] = 2
    /\ invoked["confirm_docs"] = 2

\* C16 (driver protocol): the driver leaves its prompt only when the previous
\* stream call has ended (at the terminal marker, at a suspension, or before
\* any call); the input of the stream call it starts is a ResumeCommand
\* exactly when interrupts were collected from the previous one, which then
\* ended suspended, and is the question typed otherwise; and it sends a
\* question or quits only when no interrupt of the thread is pending.
C16_DriverProtocol ==
    [][(dpc = "loop" /\ dpc' # "loop") =>
          /\ epc \in { "idle", "suspended" }
          /\ (epc = "suspended") <=> (Len(interrupts) > 0)
          /\ dpc' \in { "stream", "quit" }
          /\ dpc' = "stream" =>
                /\ epc' = "load"
                /\ (turn_input'.kind = "resume") <=> (Len(interrupts) > 0)
                /\ (turn_input'.kind = "state") <=> (Len(interrupts) = 0)
                /\ turn_input'.kind = "resume" =>
                      /\ DOMAIN turn_input'.resume # {}
                      /\ DOMAIN turn_input'.resume
                            \subseteq { p.interrupt_id : p \in pendingInterrupts }
                /\ turn_input'.kind = "state" =>
                      /\ turn_input'.state.question \in Questions(asked')
                      /\ pendingInterrupts = {}
                      /\ checkpoints # <<>> => getLatest.pendingInterrupts = {}
          /\ dpc' = "quit" =>
                /\ pendingInterrupts = {}
                /\ checkpoints # <<>> => getLatest.pendingInterrupts = {}]_vars

\* In the second question the driver has sent a ResumeCommand for
\* confirm_docs, the one interrupt collected from the stream call before.
C16_Witness ==
    /\ dpc = "stream"
    /\ epc = "load"
    /\ asked = 2
    /\ turn_input.kind = "resume"
    /\ DOMAIN turn_input.resume = { InterruptId("confirm_docs") }
    /\ pendingInterrupts = { Interrupt("confirm_docs") }
    /\ interrupts = <<>>

\* Node `reader`, invoked in the current superstep, was given a State in
\* which `channel` holds what `writer` committed earlier in this run.
ReadsCommitted(reader, writer, channel) ==
    reader \in DOMAIN pre =>
        /\ Len(commits[writer]) = 1
        /\ channel \in DOMAIN pre[reader]
        /\ pre[reader][channel] = checkpoints[commits[writer][1]].state[channel]
        /\ \A i \in commits[writer][1]..Len(checkpoints) :
              checkpoints[i].state[channel] = pre[reader][channel]

\* C17 (approval defaults are never used): pruning is invoked only after
\* confirm_docs committed docs_approval in the current run and reads that
\* value; answer is invoked only after confirm_backstory committed
\* backstory_approval in the current run and reads that value; so neither
\* reads a default, nor an approval left by an earlier question.
C17_ApprovalDefaultsUnused ==
    /\ ReadsCommitted("pruning", "confirm_docs", "docs_approval")
    /\ ReadsCommitted("answer", "confirm_backstory", "backstory_approval")
    /\ invoked["pruning"] > 0 => Len(commits["confirm_docs"]) = 1
    /\ invoked["answer"] > 0 => Len(commits["confirm_backstory"]) = 1

\* answer of the second question reads backstory_approval false, committed in
\* this run, while the first question ended with it true; pruning had read
\* docs_approval true while the first question ended with it false.
C17_Witness ==
    /\ epc = "run"
    /\ asked = 2
    /\ "answer" \in DOMAIN pre
    /\ pre["answer"].backstory_approval = FALSE
    /\ pre["answer"].docs_approval = TRUE
    /\ \E i \in 1..Len(checkpoints) :
          /\ i < commits["trim"][1]
          /\ checkpoints[i].frontier = {}
          /\ checkpoints[i].state.backstory_approval = TRUE
          /\ checkpoints[i].state.docs_approval = FALSE

\* The checkpoint the current run found as the latest of the thread.
PreviousRun == checkpoints[commits["trim"][1] - 1]

\* C18 (documents carry over between questions): a question asked after an
\* earlier one reached the terminal marker starts at the entry node, with
\* nothing completed, on the State of the latest checkpoint with the new
\* question written into it; and the delta search commits in that run is the
\* documents the earlier question left followed by the new search results,
\* so documents does not start again from nothing.
C18_DocumentsCarryOver ==
    /\ (asked >= 2 /\ epc = "run" /\ DOMAIN task = { "trim" }) =>
          /\ completedSet = {}
          /\ frontier = { "trim" }
          /\ getLatest.frontier = {}
          /\ "answer" \in getLatest.completedNodes
          /\ DOMAIN State = DOMAIN getLatest.state
          /\ State.question = turn_input.state.question
          /\ \A k \in DOMAIN State \ { "question" } : State[k] = getLatest.state[k]
    /\ (asked >= 2 /\ epc = "committed" /\ "search" \in DOMAIN task) =>
          /\ PreviousRun.frontier = {}
          /\ "documents" \in DOMAIN PreviousRun.state
          /\ collected["search"] =
                [documents |-> PreviousRun.state.documents \o web]
          /\ State.documents = PreviousRun.state.documents \o web
          /\ committed.documents = State.documents
          /\ Len(State.documents) >= Len(PreviousRun.state.documents)

\* The first question left two documents (three found, one pruned); search
\* of the second question has committed them followed by three new ones.
C18_Witness ==
    /\ asked = 2
    /\ epc = "committed"
    /\ "search" \in DOMAIN task
    /\ Len(PreviousRun.state.documents) = 2
    /\ Len(web) = 3
    /\ State.documents = PreviousRun.state.documents \o web
    /\ Len(State.documents) = 5

\* The question the user typed for the current run.
turn_input_question == dstate.question

\* C19 (messages are overwritten, not accumulated): when the superstep of
\* answer has committed, messages holds one element, the generation for the
\* question of this run (trimmed) from the documents of the State, and the
\* messages of earlier questions are gone from it.
C19_MessagesOverwritten ==
    (epc = "committed" /\ "answer" \in DOMAIN task) =>
        /\ Len(State.messages) = 1
        /\ committed.messages = State.messages
        /\ State.messages = collected["answer"].messages
        /\ State.messages[1].question = strip(turn_input_question)
        /\ State.messages[1].context = State.documents
        /\ asked >= 2 =>
              /\ Len(PreviousRun.state.messages) = 1
              /\ PreviousRun.state.messages[1] \notin Range(State.messages)

\* answer of the second question has committed its one message; the State
\* the run started from held the message of the first question.
C19_Witness ==
    /\ epc = "committed"
    /\ "answer" \in DOMAIN task
    /\ asked = 2
    /\ State.messages[1].question = <<"b">>
    /\ PreviousRun.state.messages[1].question = <<"a">>
    /\ Len(State.messages) = 1

====
